---- MODULE Spec2Model ----
(***************************************************************************)
(* Steel landed-cost estimator (steel_cost_app_live_api.py).               *)
(*                                                                         *)
(* The model covers the authenticated upload branch: the reference table   *)
(* load, the cached live lookup query_uk_tariff_api, normalize_quantity,   *)
(* get_tariff_rate, the per-row rate column, the cost columns and the      *)
(* admin-only alternative-sourcing loop.                                   *)
(*                                                                         *)
(* Conventions.                                                            *)
(*  - A Python str is a sequence of one-character strings, so that lower,  *)
(*    replace, strip and float act on characters.  HTS codes and product   *)
(*    types are only ever compared for equality and stay TLA+ strings.     *)
(*  - An optional value (Python None, a pandas NaN cell, a missing key)    *)
(*    is a sequence of length at most one: <<>> is absent, <<v>> is v.     *)
(*  - A call that may raise returns [err |-> BOOLEAN, val |-> ...].        *)
(*  - Money columns are exact: they are held in hundredths of a pound, so  *)
(*    that rate / 100 * base is an integer for integer inputs.             *)
(***************************************************************************)
EXTENDS Integers, Sequences, FiniteSets, TLC

VARIABLES
    tariff_df,   \* the reference table (line 84-87), a sequence of entries
    cache,       \* st.cache_data store of query_uk_tariff_api: code -> result
    pc,          \* position of the script: "idle", "rates", "done", "error"
    is_admin,    \* line 71
    hasRateCol,  \* "Tariff Rate (%)" in df.columns (line 130)
    df,          \* the uploaded rows (line 126)
    norm,        \* column "Normalized Quantity (kg)" (line 128)
    rates,       \* column "Tariff Rate (%)" as far as df.apply has got
    trace,       \* per row handled by the rate lambda: what it consulted
    costs,       \* per row: Base Cost, Tariff Amount, Landed Cost
    tips,        \* per row: the alternative-source lines written (line 166)
    lastQuery    \* last direct call of query_uk_tariff_api: response, result

vars == <<tariff_df, cache, pc, is_admin, hasRateCol, df, norm, rates, trace,
          costs, tips, lastQuery>>

----------------------------------------------------------------------------
(* Bounds of the model *)

MaxRows == 2
MaxEntries == 2

----------------------------------------------------------------------------
(* Optional values and raising calls *)

None == <<>>
Some(v) == <<v>>
Ok(v) == [err |-> FALSE, val |-> v]
Raised(v) == [err |-> TRUE, val |-> v]

----------------------------------------------------------------------------
(* Python str operations used by the program *)

Upper == <<"A","B","C","D","E","F","G","H","I","J","K","L","M",
           "N","O","P","Q","R","S","T","U","V","W","X","Y","Z">>
Lower == <<"a","b","c","d","e","f","g","h","i","j","k","l","m",
           "n","o","p","q","r","s","t","u","v","w","x","y","z">>
Digits == <<"0","1","2","3","4","5","6","7","8","9">>

\* str.lower() on one character
LowerChar(c) ==
    IF \E i \in DOMAIN Upper : Upper[i] = c
    THEN Lower[CHOOSE i \in DOMAIN Upper : Upper[i] = c]
    ELSE c

\* str.lower()
StrLower(s) == [i \in DOMAIN s |-> LowerChar(s[i])]

\* str.replace("%", "")
RECURSIVE RemovePercent(_)
RemovePercent(s) ==
    IF s = <<>> THEN <<>>
    ELSE IF Head(s) = "%" THEN RemovePercent(Tail(s))
    ELSE <<Head(s)>> \o RemovePercent(Tail(s))

\* str.strip(): leading and trailing whitespace removed
RECURSIVE LStrip(_)
LStrip(s) == IF s # <<>> /\ Head(s) = " " THEN LStrip(Tail(s)) ELSE s

RECURSIVE RStrip(_)
RStrip(s) ==
    IF s # <<>> /\ s[Len(s)] = " " THEN RStrip(SubSeq(s, 1, Len(s) - 1)) ELSE s

Strip(s) == RStrip(LStrip(s))

DigitValue(c) == (CHOOSE i \in DOMAIN Digits : Digits[i] = c) - 1

IsDigit(c) == \E i \in DOMAIN Digits : Digits[i] = c

RECURSIVE DecimalValue(_)
DecimalValue(s) ==
    IF s = <<>> THEN 0
    ELSE 10 * DecimalValue(SubSeq(s, 1, Len(s) - 1)) + DigitValue(s[Len(s)])

\* float(s) on strings of digits, spaces, "%" and letters: a non-empty run
\* of digits is its decimal value, anything else raises ValueError.
PyFloat(s) ==
    IF s # <<>> /\ \A i \in DOMAIN s : IsDigit(s[i])
    THEN Ok(DecimalValue(s))
    ELSE Raised(0)

----------------------------------------------------------------------------
(* String literals of the program and of the inputs *)

tonnes == <<"t","o","n","n","e","s">>
Tonnes == <<"T","o","n","n","e","s">>
TONNES == <<"T","O","N","N","E","S">>
tonne == <<"t","o","n","n","e">>
kg == <<"k","g">>
KG == <<"K","G">>
lbs == <<"l","b","s">>

China == <<"C","h","i","n","a">>
china == <<"c","h","i","n","a">>
CHINA == <<"C","H","I","N","A">>
India == <<"I","n","d","i","a">>

Codes == {"7208", "7210"}

\* line 70
admin_users == {"kenan"}

Usernames == {"kenan", "guest"}

\* lines 118-121, in insertion order
alternatives(ptype) ==
    CASE ptype = "Flat-rolled coil" ->
            Some(<<[Country |-> "Vietnam", Tariff |-> 15],
                   [Country |-> "Turkey", Tariff |-> 18]>>)
      [] ptype = "Galvanized steel" ->
            Some(<<[Country |-> "India", Tariff |-> 12],
                   [Country |-> "Brazil", Tariff |-> 20]>>)
      [] OTHER -> None

----------------------------------------------------------------------------
(* The reference table, lines 84-87 *)

Entry(h, c, r) == [hts |-> h, country |-> c, rate |-> r]

\* What tariff_rates.csv may hold; None is an absent or unreadable file.
TariffFiles ==
    { None,
      Some(<<Entry("7208", china, 25)>>),
      Some(<<Entry("7208", CHINA, 25), Entry("7208", China, 10),
             Entry("7210", India, 5)>>) }

\* try: pd.read_csv(...)  except: empty frame with the three columns
LoadTariff(file) == IF file = None THEN <<>> ELSE file[1]

----------------------------------------------------------------------------
(* query_uk_tariff_api, lines 89-102 *)

\* A response of requests.get: raises is a transport exception, json is
\* None when response.json() raises, else the payload's "included" list.
\* A measure is [type, formatted], formatted None when the key chain
\* attributes.duty_expression.formatted is missing.
Measure(t, f) == [type |-> t, formatted |-> f]

NetworkError == [raises |-> TRUE, status |-> 0, json |-> None]
Reply(st, js) == [raises |-> FALSE, status |-> st, json |-> js]

\* line 97
Qualifies(measure) ==
    /\ measure.type = "measure"
    /\ measure.formatted # None
    /\ measure.formatted[1] # <<>>

\* line 98-99; a ValueError of float() reaches the except of line 100
ParseRate(measure) == PyFloat(Strip(RemovePercent(measure.formatted[1])))

\* a scan that skips an entry float() rejects and goes on to later entries
RECURSIVE ScanMeasuresSkipping(_)
ScanMeasuresSkipping(included) ==
    IF included = <<>> THEN None
    ELSE IF Qualifies(Head(included)) /\ ~ParseRate(Head(included)).err
         THEN Some(ParseRate(Head(included)).val)
         ELSE ScanMeasuresSkipping(Tail(included))

\* lines 96-99 with the except of lines 100-102
RECURSIVE ScanMeasures(_)
ScanMeasures(included) ==
    IF included = <<>> THEN None
    ELSE IF Qualifies(Head(included))
         THEN IF ParseRate(Head(included)).err
              THEN None
              ELSE Some(ParseRate(Head(included)).val)
         ELSE ScanMeasures(Tail(included))

\* the undecorated function body, lines 91-102
query_body(resp) ==
    IF resp.raises THEN None
    ELSE IF resp.status = 200
         THEN IF resp.json = None THEN None ELSE ScanMeasures(resp.json[1])
         ELSE None

\* a cache that keeps successes only
query_caching_successes(c, hts_code, resp) ==
    IF c[hts_code] # <<>> /\ c[hts_code][1] # None
    THEN [result |-> c[hts_code][1], cache |-> c, called |-> FALSE]
    ELSE [result |-> query_body(resp),
          cache |-> IF query_body(resp) # None
                    THEN [c EXCEPT ![hts_code] = <<query_body(resp)>>]
                    ELSE c,
          called |-> TRUE]

\* no cache at all
query_uncached(c, hts_code, resp) ==
    [result |-> query_body(resp),
     cache |-> [c EXCEPT ![hts_code] = <<query_body(resp)>>],
     called |-> TRUE]

\* @st.cache_data: the return value, None included, is stored per argument
\* and a stored value is returned without running the body.  c[code] is
\* <<>> while nothing is stored and <<result>> afterwards.
query_uk_tariff_api(c, hts_code, resp) ==
    IF c[hts_code] # <<>>
    THEN [result |-> c[hts_code][1], cache |-> c, called |-> FALSE]
    ELSE [result |-> query_body(resp),
          cache |-> [c EXCEPT ![hts_code] = <<query_body(resp)>>],
          called |-> TRUE]

----------------------------------------------------------------------------
(* normalize_quantity, lines 104-107 *)

\* a comparison that forgets .lower()
normalize_quantity_case_sensitive(row) ==
    IF row.unit = None THEN Raised(0)
    ELSE IF row.unit[1] = tonnes THEN Ok(row.qty * 1000)
    ELSE Ok(row.qty)

\* row["Unit"].lower() raises AttributeError on a NaN cell
normalize_quantity(row) ==
    IF row.unit = None THEN Raised(0)
    ELSE IF StrLower(row.unit[1]) = tonnes THEN Ok(row.qty * 1000)
    ELSE Ok(row.qty)

----------------------------------------------------------------------------
(* get_tariff_rate, lines 109-116 *)

\* a match that compares the country as written
reference_match_case_sensitive(tdf, hts, country) ==
    SelectSeq(tdf, LAMBDA e : e.hts = hts /\ e.country = country)

\* line 113, country a str
reference_match(tdf, hts, country) ==
    SelectSeq(tdf, LAMBDA e :
        e.hts = hts /\ StrLower(e.country) = StrLower(country))

Resolution(e, r, q, t) ==
    [err |-> e, rate |-> r, cache |-> q.cache, called |-> q.called,
     live |-> q.result, table |-> t, explicit |-> FALSE]

\* "if rate:" in place of "if rate is not None:"
get_tariff_rate_truthy(c, tdf, hts, country, resp) ==
    LET q == query_uk_tariff_api(c, hts, resp) IN
    IF q.result # None /\ q.result[1] # 0
    THEN Resolution(FALSE, q.result[1], q, FALSE)
    ELSE IF country = None THEN Resolution(TRUE, 0, q, TRUE)
    ELSE IF reference_match(tdf, hts, country[1]) # <<>>
         THEN Resolution(FALSE, reference_match(tdf, hts, country[1])[1].rate,
                         q, TRUE)
         ELSE Resolution(FALSE, 0, q, TRUE)

\* country is the row's cell: country.lower() raises AttributeError on NaN
get_tariff_rate(c, tdf, hts, country, resp) ==
    LET q == query_uk_tariff_api(c, hts, resp) IN
    IF q.result # None
    THEN Resolution(FALSE, q.result[1], q, FALSE)
    ELSE IF country = None THEN Resolution(TRUE, 0, q, TRUE)
    ELSE IF reference_match(tdf, hts, country[1]) # <<>>
         THEN Resolution(FALSE, reference_match(tdf, hts, country[1])[1].rate,
                         q, TRUE)
         ELSE Resolution(FALSE, 0, q, TRUE)

\* a lambda that resolves every row, explicit rate or not
rate_lambda_always_resolving(c, tdf, has, row, resp) ==
    get_tariff_rate(c, tdf, row.hts, row.country, resp)

\* lines 130-136: the lambda applied to one row
rate_lambda(c, tdf, has, row, resp) ==
    IF has /\ row.rate # None
    THEN [err |-> FALSE, rate |-> row.rate[1], cache |-> c, called |-> FALSE,
          live |-> None, table |-> FALSE, explicit |-> TRUE]
    ELSE get_tariff_rate(c, tdf, row.hts, row.country, resp)

----------------------------------------------------------------------------
(* Cost columns, lines 138-140, in hundredths of a pound *)

Pence(pounds) == pounds * 100

\* a landed cost that leaves the tariff out
cost_columns_without_tariff(nq, uval, rate, ship) ==
    [base |-> Pence(nq * uval),
     tariff |-> rate * (Pence(nq * uval) \div 100),
     landed |-> Pence(nq * uval) + Pence(ship)]

\* rate / 100 * base is taken as rate * (base / 100): base is a whole
\* number of pounds, so the quotient is exact.
cost_columns(nq, uval, rate, ship) ==
    [base |-> Pence(nq * uval),
     tariff |-> rate * (Pence(nq * uval) \div 100),
     landed |-> Pence(nq * uval) + rate * (Pence(nq * uval) \div 100)
                + Pence(ship)]

----------------------------------------------------------------------------
(* Alternative sources, lines 159-166 *)

Suggestion(alt, current_tariff, base) ==
    [Country |-> alt.Country, Tariff |-> alt.Tariff,
     savings |-> (current_tariff - alt.Tariff) * (base \div 100)]

RECURSIVE SuggestFrom(_, _, _)
SuggestFrom(alt_sources, current_tariff, base) ==
    IF alt_sources = <<>> THEN <<>>
    ELSE (IF Head(alt_sources).Tariff < current_tariff
          THEN <<Suggestion(Head(alt_sources), current_tariff, base)>>
          ELSE <<>>)
         \o SuggestFrom(Tail(alt_sources), current_tariff, base)

RECURSIVE SuggestFromInclusive(_, _, _)
SuggestFromInclusive(alt_sources, current_tariff, base) ==
    IF alt_sources = <<>> THEN <<>>
    ELSE (IF Head(alt_sources).Tariff <= current_tariff
          THEN <<Suggestion(Head(alt_sources), current_tariff, base)>>
          ELSE <<>>)
         \o SuggestFromInclusive(Tail(alt_sources), current_tariff, base)

\* "<=" in place of "<" at line 164
alt_lines_inclusive(ptype, current_tariff, base, admin) ==
    IF alternatives(ptype) # None /\ admin
    THEN SuggestFromInclusive(alternatives(ptype)[1], current_tariff, base)
    ELSE <<>>

\* the lines written for one row by the loop of lines 163-166
alt_lines(ptype, current_tariff, base, admin) ==
    IF alternatives(ptype) # None /\ admin
    THEN SuggestFrom(alternatives(ptype)[1], current_tariff, base)
    ELSE <<>>

----------------------------------------------------------------------------
(* Inputs *)

Row(h, p, c, q, u, v, s, r) ==
    [hts |-> h, ptype |-> p, country |-> c, qty |-> q, unit |-> u,
     uval |-> v, ship |-> s, rate |-> r]

\* Rows of an uploaded batch.  A None country, unit or rate is an empty cell.
SampleRows ==
    { Row("7208", "Flat-rolled coil", Some(China), 2, Some(tonnes), 500, 300, None),
      Row("7210", "Galvanized steel", Some(India), 3, Some(KG), 500, 0, None),
      Row("7208", "Flat-rolled coil", Some(China), 2, Some(tonnes), 500, 300, Some(30)),
      Row("7210", "Steel pipe", Some(India), 3, Some(lbs), 500, 300, Some(0)),
      Row("7208", "Flat-rolled coil", None, 2, Some(tonnes), 500, 300, None),
      Row("7208", "Flat-rolled coil", Some(China), 2, None, 500, 300, None) }

RECURSIVE SeqsUpTo(_, _)
SeqsUpTo(S, n) ==
    IF n = 0 THEN {<<>>}
    ELSE SeqsUpTo(S, n - 1)
         \cup {Append(s, x) : s \in {t \in SeqsUpTo(S, n - 1) : Len(t) = n - 1},
                             x \in S}

Batches == SeqsUpTo(SampleRows, MaxRows) \ {<<>>}

\* Answers of the external service seen by a batch run
SampleResponses ==
    { NetworkError,
      Reply(404, None),
      Reply(200, None),
      Reply(200, Some(<<>>)),
      Reply(200, Some(<<Measure("measure", Some(<<"0","%">>))>>)),
      Reply(200, Some(<<Measure("footnote", Some(<<"5","%">>)),
                        Measure("measure", Some(<<" ","1","2"," ","%"," ">>))>>)),
      Reply(200, Some(<<Measure("measure", Some(<<"x">>)),
                        Measure("measure", Some(<<"5","%">>))>>)) }

\* Answers of the external service for the direct calls of the lookup
Formatted ==
    { None, Some(<<>>), Some(<<"%">>), Some(<<"x">>), Some(<<"5">>),
      Some(<<" ","1","2"," ","%"," ">>) }

Measures ==
    {Measure("measure", f) : f \in Formatted}
    \cup {Measure("footnote", Some(<<"7","%">>))}

Responses ==
    {NetworkError, Reply(404, None), Reply(404, Some(<<Measure("measure", Some(<<"5">>))>>))}
    \cup {Reply(200, js) :
            js \in {None} \cup {Some(l) : l \in SeqsUpTo(Measures, MaxEntries)}}

\* Rows of a one-row batch that carries its own rate
CostRows ==
    { Row("7208", p, Some(China), q, u, v, s, Some(r)) :
        p \in {"Flat-rolled coil", "Galvanized steel", "Steel pipe"},
        q \in {0, 2, 3},
        u \in {Some(tonnes), Some(Tonnes), Some(TONNES), Some(tonne),
               Some(kg), Some(KG), Some(lbs), None},
        v \in {0, 500},
        s \in {0, 300},
        r \in {0, 12, 15, 18, 20, 25} }

----------------------------------------------------------------------------
(* State machine *)

EmptyCache == [c \in Codes |-> <<>>]

Init ==
    /\ tariff_df \in {LoadTariff(f) : f \in TariffFiles}
    /\ cache = EmptyCache
    /\ pc = "idle"
    /\ is_admin = FALSE
    /\ hasRateCol = FALSE
    /\ df = <<>>
    /\ norm = <<>>
    /\ rates = <<>>
    /\ trace = <<>>
    /\ costs = <<>>
    /\ tips = <<>>
    /\ lastQuery = None

Idle == pc = "idle"

\* lines 126-128 of a script run: read the upload, normalize every row.
\* An exception of normalize_quantity ends the run before any later line.
Begin(batch, has, username) ==
    /\ df' = batch
    /\ hasRateCol' = has
    /\ is_admin' = (username \in admin_users)
    /\ IF \E i \in DOMAIN batch : normalize_quantity(batch[i]).err
       THEN /\ pc' = "error"
            /\ norm' = <<>>
       ELSE /\ pc' = "rates"
            /\ norm' = [i \in DOMAIN batch |-> normalize_quantity(batch[i]).val]
    /\ rates' = <<>>
    /\ trace' = <<>>
    /\ costs' = <<>>
    /\ tips' = <<>>

\* lines 138-166 once the rate column rs is complete
Complete(rs) ==
    /\ costs' = [i \in DOMAIN df |->
                    cost_columns(norm[i], df[i].uval, rs[i], df[i].ship)]
    /\ tips' = [i \in DOMAIN df |->
                    alt_lines(df[i].ptype, rs[i],
                              cost_columns(norm[i], df[i].uval, rs[i],
                                           df[i].ship).base,
                              is_admin)]
    /\ pc' = "done"

\* What the rate lambda did for one row: r is its outcome, prior the cache
\* entry of the row's code when it started.
TraceEntry(r, prior) ==
    [explicit |-> r.explicit, prior |-> prior, called |-> r.called,
     live |-> r.live, table |-> r.table, raised |-> r.err]

\* A script run starts on an uploaded file.  Without the rate column every
\* rate cell is empty.
Upload(batch, has, username) ==
    /\ Idle
    /\ has \/ \A i \in DOMAIN batch : batch[i].rate = None
    /\ Begin(batch, has, username)
    /\ UNCHANGED <<tariff_df, cache, lastQuery>>

\* df.apply of lines 130-136 reaches the next row; resp is what the external
\* service answers if it is asked.
ResolveRow(resp) ==
    /\ pc = "rates"
    /\ Len(rates) < Len(df)
    /\ LET row == df[Len(rates) + 1]
           r == rate_lambda(cache, tariff_df, hasRateCol, row, resp)
       IN /\ cache' = r.cache
          /\ trace' = Append(trace, TraceEntry(r, cache[row.hts]))
          /\ IF r.err
             THEN /\ pc' = "error"
                  /\ rates' = rates
             ELSE /\ pc' = pc
                  /\ rates' = Append(rates, r.rate)
    /\ UNCHANGED <<tariff_df, is_admin, hasRateCol, df, norm, costs, tips,
                   lastQuery>>

\* lines 138-166: cost columns and the alternative-source lines
Finish ==
    /\ pc = "rates"
    /\ Len(rates) = Len(df)
    /\ Complete(rates)
    /\ UNCHANGED <<tariff_df, cache, is_admin, hasRateCol, df, norm, rates,
                   trace, lastQuery>>

\* The script run is over (line 174, or the exception that ended it): its
\* variables are gone, the st.cache_data store stays with the process.
EndRun ==
    /\ pc \in {"done", "error"}
    /\ pc' = "idle"
    /\ is_admin' = FALSE
    /\ hasRateCol' = FALSE
    /\ df' = <<>>
    /\ norm' = <<>>
    /\ rates' = <<>>
    /\ trace' = <<>>
    /\ costs' = <<>>
    /\ tips' = <<>>
    /\ UNCHANGED <<tariff_df, cache, lastQuery>>

Next ==
    \/ \E batch \in Batches, has \in BOOLEAN, username \in Usernames :
          Upload(batch, has, username)
    \/ \E resp \in SampleResponses : ResolveRow(resp)
    \/ Finish
    \/ EndRun

Spec == Init /\ [][Next]_vars

\* One call of the cached lookup
QueryCall(hts_code, resp) ==
    /\ LET q == query_uk_tariff_api(cache, hts_code, resp)
       IN /\ cache' = q.cache
          /\ lastQuery' = Some([hts_code |-> hts_code,
                                resp |-> IF q.called THEN Some(resp) ELSE None,
                                result |-> q.result, called |-> q.called,
                                prior |-> cache[hts_code]])
    /\ UNCHANGED <<tariff_df, pc, is_admin, hasRateCol, df, norm, rates,
                   trace, costs, tips>>

\* For a code already stored no request is made, so one answer stands for all.
NextQuery ==
    \E hts_code \in Codes :
        \E resp \in (IF cache[hts_code] = <<>> THEN Responses ELSE {NetworkError}) :
            QueryCall(hts_code, resp)

SpecQuery == Init /\ [][NextQuery]_vars

\* A whole script run (lines 126-166) on a one-row batch whose row carries
\* its rate: the lambda of line 134 returns the cell, no lookup is made.
UploadExplicit(row, username) ==
    /\ Idle
    /\ row.rate # None
    /\ df' = <<row>>
    /\ hasRateCol' = TRUE
    /\ is_admin' = (username \in admin_users)
    /\ IF normalize_quantity(row).err
       THEN /\ pc' = "error"
            /\ norm' = <<>>
            /\ rates' = <<>>
            /\ trace' = <<>>
            /\ costs' = <<>>
            /\ tips' = <<>>
       ELSE LET nq == normalize_quantity(row).val
                r == rate_lambda(cache, tariff_df, TRUE, row, NetworkError)
                cc == cost_columns(nq, row.uval, r.rate, row.ship)
            IN /\ pc' = "done"
               /\ norm' = <<nq>>
               /\ rates' = <<r.rate>>
               /\ trace' = <<TraceEntry(r, cache[row.hts])>>
               /\ costs' = <<cc>>
               /\ tips' = <<alt_lines(row.ptype, r.rate, cc.base,
                                      username \in admin_users)>>
    /\ UNCHANGED <<tariff_df, cache, lastQuery>>

NextCost ==
    \/ \E row \in CostRows, username \in Usernames : UploadExplicit(row, username)
    \/ EndRun

SpecCost == Init /\ [][NextCost]_vars

----------------------------------------------------------------------------
(* Properties *)

\* The entries of the reference table for a code and a country, the country
\* compared ignoring case
MatchingEntries(hts, country) ==
    {k \in DOMAIN tariff_df :
        /\ tariff_df[k].hts = hts
        /\ StrLower(tariff_df[k].country) = StrLower(country)}

FirstMatch(hts, country) ==
    CHOOSE k \in MatchingEntries(hts, country) :
        \A l \in MatchingEntries(hts, country) : k <= l

\* Rows the rate lambda sent to get_tariff_rate and that got a rate
Resolved == {i \in DOMAIN rates : ~trace[i].explicit}

\* C1: a row without an explicit rate gets the live rate when the live lookup
\* yields one, and then the reference table is not used; otherwise the rate
\* of the first reference entry with the same code and the same country
\* ignoring case; otherwise 0.
C1_ResolutionOrder ==
    \A i \in Resolved :
        IF trace[i].live # None
        THEN /\ rates[i] = trace[i].live[1]
             /\ ~trace[i].table
        ELSE IF MatchingEntries(df[i].hts, df[i].country[1]) # {}
             THEN rates[i] =
                    tariff_df[FirstMatch(df[i].hts, df[i].country[1])].rate
             ELSE rates[i] = 0

\* A finished batch with one row served by the reference table after a failed
\* lookup and another row served by the live lookup
C1_Witness ==
    /\ pc = "done"
    /\ \E i, j \in Resolved :
          /\ trace[i].live = None
          /\ trace[i].table
          /\ df[i].country = Some(China)
          /\ rates[i] = 25
          /\ trace[j].live = Some(12)
          /\ rates[j] = 12

\* C2: a row whose rate cell is filled keeps that rate, and neither the
\* external service nor the reference table is consulted for it; a row of the
\* same batch whose cell is empty goes through the lookup.
C2_ExplicitRateSkipsResolution ==
    \A i \in DOMAIN trace :
        IF hasRateCol /\ df[i].rate # None
        THEN /\ i \in DOMAIN rates
             /\ rates[i] = df[i].rate[1]
             /\ ~trace[i].called
             /\ ~trace[i].table
        ELSE /\ ~trace[i].explicit
             /\ trace[i].called \/ trace[i].prior # <<>>

\* A finished batch with an explicit row and a row the service was asked for
C2_Witness ==
    /\ pc = "done"
    /\ \E i, j \in DOMAIN rates :
          /\ df[i].rate = Some(30)
          /\ rates[i] = 30
          /\ df[j].rate = None
          /\ trace[j].called

\* C3: a resolution for a code whose live lookup succeeded before returns the
\* cached rate and makes no external call.
C3_CachedSuccessIsReused ==
    \A i \in DOMAIN trace :
        (~trace[i].explicit /\ trace[i].prior # <<>> /\ trace[i].prior[1] # None)
        => /\ ~trace[i].called
           /\ trace[i].live = trace[i].prior[1]
           /\ i \in DOMAIN rates
           /\ rates[i] = trace[i].prior[1][1]

\* Two rows of one batch with the same code: the first asked the service and
\* got 12, the second was served from the cache
C3_Witness ==
    \E i, j \in Resolved :
        /\ i < j
        /\ df[i].hts = df[j].hts
        /\ trace[i].called
        /\ trace[i].live = Some(12)
        /\ trace[j].prior = <<Some(12)>>
        /\ ~trace[j].called
        /\ rates[j] = 12

\* C4 as stated: after a failed lookup for a code, a later resolution for the
\* same code asks the external service again.
C4_FailureIsRetried ==
    /\ \A i \in DOMAIN trace :
          (~trace[i].explicit /\ trace[i].prior = <<None>>) => trace[i].called
    /\ \A i, j \in DOMAIN trace :
          (/\ i < j
           /\ df[i].hts = df[j].hts
           /\ ~trace[i].explicit
           /\ ~trace[j].explicit
           /\ trace[i].live = None)
          => trace[j].called

\* C4 amended: failures are cached too.  After a failed lookup for a code, a
\* later resolution for the same code makes no external call and again has no
\* live rate.
C4_FailureIsCached ==
    /\ \A i \in DOMAIN trace :
          (~trace[i].explicit /\ trace[i].prior = <<None>>)
          => ~trace[i].called /\ trace[i].live = None
    /\ \A i, j \in DOMAIN trace :
          (/\ i < j
           /\ df[i].hts = df[j].hts
           /\ ~trace[i].explicit
           /\ ~trace[j].explicit
           /\ trace[i].live = None)
          => ~trace[j].called /\ trace[j].live = None

\* A row resolved in a later run than the failed lookup for its code
C4_Witness ==
    \E i \in Resolved :
        /\ trace[i].prior = <<None>>
        /\ \A j \in DOMAIN trace : j < i => df[j].hts # df[i].hts

\* C5: no script run on an upload ends in an exception; every run gives every
\* row a rate and the three cost columns.
C5_NoRunAborts ==
    /\ pc # "error"
    /\ pc = "done" => DOMAIN rates = DOMAIN df /\ DOMAIN costs = DOMAIN df

\* The measures of a payload that line 97 accepts
Qualifying(included) ==
    {k \in DOMAIN included :
        /\ included[k].type = "measure"
        /\ included[k].formatted # None
        /\ Len(included[k].formatted[1]) > 0}

\* C6: the lookup answers from the first measure, in response order, whose
\* type is "measure" and whose formatted duty expression is non-empty: its
\* text without "%" and surrounding whitespace, as a number; when that text
\* is no number the lookup has no answer, whatever later measures hold.
C6_FirstQualifyingMeasure ==
    (/\ lastQuery # None
     /\ lastQuery[1].called
     /\ ~lastQuery[1].resp[1].raises
     /\ lastQuery[1].resp[1].status = 200
     /\ lastQuery[1].resp[1].json # None)
    => LET included == lastQuery[1].resp[1].json[1]
           Q == Qualifying(included)
           first == CHOOSE k \in Q : \A l \in Q : k <= l
           text == Strip(RemovePercent(included[first].formatted[1]))
       IN IF Q = {} THEN lastQuery[1].result = None
          ELSE /\ PyFloat(text).err => lastQuery[1].result = None
               /\ ~PyFloat(text).err => lastQuery[1].result = Some(PyFloat(text).val)
               /\ included[first].formatted[1] = <<" ","1","2"," ","%"," ">>
                    => lastQuery[1].result = Some(12)
               /\ included[first].formatted[1] \in {<<"%">>, <<"x">>}
                    => lastQuery[1].result = None

\* The first qualifying measure is no number, a later one is 5: no answer
C6_Witness ==
    /\ lastQuery # None
    /\ lastQuery[1].called
    /\ lastQuery[1].resp =
          Some(Reply(200, Some(<<Measure("measure", Some(<<"x">>)),
                                 Measure("measure", Some(<<"5">>))>>)))
    /\ lastQuery[1].result = None

\* C7: base cost = normalized quantity x unit value, tariff amount = rate/100
\* x base cost, landed cost = base + tariff + shipping; rate 0 gives tariff 0.
\* Amounts are in hundredths of a pound.
C7_CostBreakdown ==
    \A i \in DOMAIN costs :
        /\ costs[i].base = 100 * (norm[i] * df[i].uval)
        /\ costs[i].tariff = rates[i] * (norm[i] * df[i].uval)
        /\ costs[i].landed = costs[i].base + costs[i].tariff + 100 * df[i].ship
        /\ rates[i] = 0 =>
              /\ costs[i].tariff = 0
              /\ costs[i].landed = costs[i].base + 100 * df[i].ship
        /\ (norm[i] = 2000 /\ df[i].uval = 500 /\ df[i].ship = 300) =>
              /\ costs[i].base = 100000000
              /\ rates[i] = 0 => costs[i].landed = 100030000
              /\ rates[i] = 25 => /\ costs[i].tariff = 25000000
                                  /\ costs[i].landed = 125030000

\* 2 tonnes at 500 with shipping 300 and rate 25
C7_Witness ==
    /\ pc = "done"
    /\ \E i \in DOMAIN costs :
          /\ df[i].qty = 2
          /\ df[i].unit = Some(tonnes)
          /\ df[i].uval = 500
          /\ df[i].ship = 300
          /\ rates[i] = 25
          /\ costs[i].landed = 125030000

\* C8: a row whose unit is "tonnes" in any letter case has its quantity
\* multiplied by 1000, a row with any other unit string keeps its quantity,
\* and no unit string makes the run fail.
C8_NormalizeQuantity ==
    \A i \in DOMAIN df :
        df[i].unit # None =>
            /\ pc # "error"
            /\ i \in DOMAIN norm
            /\ norm[i] = IF df[i].unit[1] \in {tonnes, Tonnes, TONNES}
                         THEN 1000 * df[i].qty
                         ELSE df[i].qty

\* 2 "TONNES" became 2000 kg
C8_Witness ==
    \E i \in DOMAIN norm :
        /\ df[i].unit = Some(TONNES)
        /\ df[i].qty = 2
        /\ norm[i] = 2000

\* The candidates of a product type that undercut a rate, as positions of the
\* static mapping
Undercutting(ptype, rate) ==
    IF alternatives(ptype) = None THEN {}
    ELSE {k \in DOMAIN alternatives(ptype)[1] :
            alternatives(ptype)[1][k].Tariff < rate}

\* C9: the lines written for a row are the candidates of its product type
\* with a rate strictly below the row's rate, in the mapping's order, each
\* with savings (rate - candidate rate)/100 x base cost; none for an unmapped
\* product type, none when no candidate undercuts, none for a non-admin.
C9_AlternativeSources ==
    \A i \in DOMAIN tips :
        LET U == Undercutting(df[i].ptype, rates[i])
            alts == alternatives(df[i].ptype)[1]
        IN IF ~is_admin THEN tips[i] = <<>>
           ELSE /\ Len(tips[i]) = Cardinality(U)
                /\ \A n \in DOMAIN tips[i] :
                      \E k \in U :
                         /\ Cardinality({l \in U : l < k}) = n - 1
                         /\ tips[i][n].Country = alts[k].Country
                         /\ tips[i][n].Tariff = alts[k].Tariff
                         /\ tips[i][n].savings =
                              (rates[i] - alts[k].Tariff)
                                 * (norm[i] * df[i].uval)

\* Flat-rolled coil at rate 25 on a base cost of 1,000,000: Vietnam saves
\* 100,000 and Turkey 70,000, in that order
C9_Witness ==
    /\ is_admin
    /\ \E i \in DOMAIN tips :
          /\ df[i].ptype = "Flat-rolled coil"
          /\ rates[i] = 25
          /\ costs[i].base = 100000000
          /\ tips[i] = <<[Country |-> "Vietnam", Tariff |-> 15, savings |-> 10000000],
                         [Country |-> "Turkey", Tariff |-> 18, savings |-> 7000000]>>

\* C10: a live lookup that answers 0 gives the row the rate 0 and the
\* reference table is not used, whatever it holds for the code and country.
C10_LiveZeroIsARate ==
    \A i \in DOMAIN trace :
        (~trace[i].explicit /\ trace[i].live = Some(0))
        => /\ i \in DOMAIN rates
           /\ rates[i] = 0
           /\ ~trace[i].table

\* Live 0 for a row whose code and country have the reference rate 25
C10_Witness ==
    \E i \in Resolved :
        /\ trace[i].live = Some(0)
        /\ df[i].country # None
        /\ MatchingEntries(df[i].hts, df[i].country[1]) # {}
        /\ tariff_df[FirstMatch(df[i].hts, df[i].country[1])].rate = 25
        /\ rates[i] = 0

====
